---------------------------- MODULE Spec2Model ----------------------------
(***************************************************************************)
(* A model of the OpenGL-rust program: src/src/main.rs (geometry, the      *)
(* event handler and the frame loop) and src/src/wrapper.rs (the GL object *)
(* wrappers and the Settings struct).                                      *)
(*                                                                         *)
(* Numbers.  Every f32 coordinate of the program is a decimal with at most *)
(* three places, so lengths are integers counted in thousandths: the       *)
(* vertex (-0.81, 0.468, 0.0) is <<-810, 468, 0>> and delta 0.01 is 10.    *)
(* Doubling delta is exact in f32 (a power-of-two scaling); the additions  *)
(* to landslide are modelled without f32 rounding.  Settings.iteration is  *)
(* an f32 holding a whole number, exact far beyond the bounds used here.   *)
(***************************************************************************)
EXTENDS Integers, Sequences, FiniteSets, TLC

VARIABLES
    pc,            \* position of main(): the statement block about to run
    settings,      \* main.rs:108  let mut settings = Settings::new()
    prev_set,      \* main.rs:210  let prev_set = settings.clone()
    keys,          \* the window's cached key state, read by Window::get_key
    events,        \* setup.events: the receiver's queue of window events
    should_close,  \* the window's close flag
    gl,            \* the state of the GL context
    handles,       \* main()'s local handles: vbo, vao1, ebo1, vao2, ebo2, programs
    built,         \* outcome of the last ShaderProgram::from_vertex_fragment
    frame,         \* number of loop iterations started
    delivered,     \* number of window events delivered so far
    moves,         \* per loop iteration: events processed (n) and, per axis, the
                   \* events among them that moved the translation (v, h)
    updates        \* since Settings::new / reset_params: held-key transitions applied

vars == <<pc, settings, prev_set, keys, events, should_close, gl, handles,
          built, frame, delivered, moves, updates>>

---------------------------------------------------------------------------
(* Bounds of the model *)

\* loop iterations the frame loop may start
MaxFrames == 3
\* window events delivered over the whole run
MaxEvents == 3
\* held-key transitions the handler driver applies between two resets
MaxUpdates == 21
\* movement-key releases the handler driver delivers
MaxResets == 1
\* movement-key presses the handler driver delivers
MaxPresses == 2

---------------------------------------------------------------------------
(* Geometry: main.rs *)

BaseVertices ==
    << <<-810, 120, 0>>, <<-810, 468, 0>>, <<-632, 291, 0>>, <<-557, 364, 0>>,
       <<-557, 120, 0>>, <<-557, -141, 0>>, <<-810, -141, 0>>, <<-557, -11, 0>>,
       <<-40, -11, 0>>, <<477, -11, 0>>, <<-300, -270, 0>>, <<220, -270, 0>>,
       <<-557, -526, 0>>, <<477, -526, 0>>, <<544, 236, 0>>, <<850, 408, 0>>,
       <<792, 168, 0>> >>

\* landslide is [f32; 2]: landslide[0] is element 1 here, landslide[1] element 2
get_vertices(landslide) ==
    [i \in 1..Len(BaseVertices) |->
        <<BaseVertices[i][1] + landslide[1],
          BaseVertices[i][2] + landslide[2],
          BaseVertices[i][3]>>]

get_triangles_indices ==
    << <<0, 1, 2>>, <<0, 3, 4>>, <<0, 4, 6>>, <<4, 5, 6>>, <<7, 8, 12>>,
       <<8, 10, 11>>, <<8, 9, 13>>, <<9, 14, 16>>, <<14, 15, 16>> >>

get_lines_indices ==
    << <<0, 1>>, <<1, 2>>, <<0, 3>>, <<3, 4>>, <<0, 4>>, <<0, 6>>, <<4, 7>>,
       <<5, 6>>, <<7, 12>>, <<7, 8>>, <<8, 9>>, <<8, 12>>, <<8, 13>>,
       <<10, 11>>, <<9, 13>>, <<9, 14>>, <<9, 16>>, <<14, 15>>, <<15, 16>> >>

\* bytemuck::cast_slice of an array of index tuples: the indices in order
RECURSIVE cast_slice(_)
cast_slice(rows) ==
    IF rows = <<>> THEN <<>> ELSE Head(rows) \o cast_slice(Tail(rows))

---------------------------------------------------------------------------
(* Settings: wrapper.rs *)

MovementKeys == {"W", "S", "A", "D"}

SettingsNew == [landslide |-> <<0, 0>>, delta |-> 10, iteration |-> 0]

\* a faulty move_horiz: it does not count its update
move_horiz_uncounted(s, key) ==
    LET it == s.iteration + 1
        d  == IF it % 10 = 0 THEN s.delta * 2 ELSE s.delta
    IN  [s EXCEPT !.delta = d,
                  !.landslide[1] = CASE key = "A" -> @ - d
                                     [] key = "D" -> @ + d
                                     [] OTHER -> @]

move_horiz(s, key) ==
    LET it == s.iteration + 1
        d  == IF it % 10 = 0 THEN s.delta * 2 ELSE s.delta
    IN  [s EXCEPT !.iteration = it,
                  !.delta = d,
                  !.landslide[1] = CASE key = "A" -> @ - d
                                     [] key = "D" -> @ + d
                                     [] OTHER -> @]

\* a faulty move_vert: it steps by the delta from before the doubling
move_vert_stale_delta(s, key) ==
    LET it == s.iteration + 1
        d  == IF it % 10 = 0 THEN s.delta * 2 ELSE s.delta
    IN  [s EXCEPT !.iteration = it,
                  !.delta = d,
                  !.landslide[2] = CASE key = "W" -> @ + s.delta
                                     [] key = "S" -> @ - s.delta
                                     [] OTHER -> @]

move_vert(s, key) ==
    LET it == s.iteration + 1
        d  == IF it % 10 = 0 THEN s.delta * 2 ELSE s.delta
    IN  [s EXCEPT !.iteration = it,
                  !.delta = d,
                  !.landslide[2] = CASE key = "W" -> @ + d
                                     [] key = "S" -> @ - d
                                     [] OTHER -> @]

\* a faulty move_img: "if" in place of "else if", both directions are honored
move_img_no_else(s, ks) ==
    LET v1 == IF "W" \in ks THEN move_vert(s, "W") ELSE s
        v2 == IF "S" \in ks THEN move_vert(v1, "S") ELSE v1
        h1 == IF "A" \in ks THEN move_horiz(v2, "A") ELSE v2
    IN  IF "D" \in ks THEN move_horiz(h1, "D") ELSE h1

\* ks: the keys for which window.get_key(k) == Action::Press
move_img(s, ks) ==
    LET v == IF "W" \in ks THEN move_vert(s, "W")
             ELSE IF "S" \in ks THEN move_vert(s, "S")
             ELSE s
    IN  IF "A" \in ks THEN move_horiz(v, "A")
        ELSE IF "D" \in ks THEN move_horiz(v, "D")
        ELSE v

\* a faulty reset_params: the counter is left as it is
reset_params_keeps_count(s) == [s EXCEPT !.delta = 10]

reset_params(s) == [s EXCEPT !.delta = 10, !.iteration = 0]

---------------------------------------------------------------------------
(* The GL context.  Object names are handed out in order; 0 is no object.  *)
(* created: every object ever made; live: the objects that exist;         *)
(* deletes: every glDelete* call on an existing object, in order.  The element-array binding belongs to the    *)
(* bound vertex array (vaoEbo), the array binding to the context.          *)

GlInit ==
    [nextBuffer |-> 1, nextVao |-> 1, nextObj |-> 1,
     created |-> {}, live |-> {}, deletes |-> <<>>,
     arrayBinding |-> 0, vaoBinding |-> 0,
     vaoEbo |-> (0 :> 0), vaoAttrib |-> (0 :> 0),
     bufData |-> (0 :> <<>>),
     attached |-> (0 :> {}), linked |-> {},
     program |-> 0,
     viewport |-> <<800, 600>>,
     framebuffer |-> <<>>]

\* the buffer bound to a BufferType target
BoundBuffer(g, buf_type) ==
    IF buf_type = "Array" THEN g.arrayBinding ELSE g.vaoEbo[g.vaoBinding]

\* ArrayBuffer::new: id 0 stands for None (glGenBuffers left the name 0)
ArrayBufferNew(g, ok) ==
    IF ok
    THEN [gl |-> [g EXCEPT !.nextBuffer = @ + 1,
                           !.created = @ \cup {<<"buffer", g.nextBuffer>>},
                           !.live = @ \cup {<<"buffer", g.nextBuffer>>},
                           !.bufData = (g.nextBuffer :> <<>>) @@ @],
          id |-> g.nextBuffer]
    ELSE [gl |-> g, id |-> 0]

ArrayBufferBind(g, id, buf_type) ==
    IF buf_type = "Array"
    THEN [g EXCEPT !.arrayBinding = id]
    ELSE [g EXCEPT !.vaoEbo[g.vaoBinding] = id]

ArrayBufferDelete(g, id) ==
    IF <<"buffer", id>> \notin g.live THEN g
    ELSE [g EXCEPT !.live = @ \ {<<"buffer", id>>},
                   !.deletes = Append(@, <<"buffer", id>>),
                   !.arrayBinding = IF @ = id THEN 0 ELSE @,
                   !.vaoEbo[g.vaoBinding] = IF @ = id THEN 0 ELSE @]

\* glBufferData: a new data store for the buffer bound to the target
buffer_data(g, buf_type, data) ==
    LET b == BoundBuffer(g, buf_type)
    IN  IF b = 0 THEN g ELSE [g EXCEPT !.bufData[b] = data]

\* glBufferSubData at offset 0: overwrites the start of the existing store;
\* an error and no change when nothing is bound or the data do not fit
update_buffer_data(g, buf_type, data) ==
    LET b == BoundBuffer(g, buf_type)
        old == g.bufData[b]
    IN  IF b = 0 \/ Len(data) > Len(old) THEN g
        ELSE [g EXCEPT !.bufData[b] =
                 [i \in 1..Len(old) |-> IF i <= Len(data) THEN data[i] ELSE old[i]]]

VertexArrayNew(g, ok) ==
    IF ok
    THEN [gl |-> [g EXCEPT !.nextVao = @ + 1,
                           !.created = @ \cup {<<"vao", g.nextVao>>},
                           !.live = @ \cup {<<"vao", g.nextVao>>},
                           !.vaoEbo = (g.nextVao :> 0) @@ @,
                           !.vaoAttrib = (g.nextVao :> 0) @@ @],
          id |-> g.nextVao]
    ELSE [gl |-> g, id |-> 0]

VertexArrayBind(g, id) == [g EXCEPT !.vaoBinding = id]

clear_array_binding(g) == [g EXCEPT !.vaoBinding = 0]

VertexArrayDelete(g, id) ==
    IF <<"vao", id>> \notin g.live THEN g
    ELSE [g EXCEPT !.live = @ \ {<<"vao", id>>},
                   !.deletes = Append(@, <<"vao", id>>),
                   !.vaoBinding = IF @ = id THEN 0 ELSE @]

\* glVertexAttribPointer(0, ...) + glEnableVertexAttribArray(0): attribute 0
\* of the bound vertex array reads the buffer bound to the Array target
VertexAttribPointer(g) == [g EXCEPT !.vaoAttrib[g.vaoBinding] = g.arrayBinding]

\* Shader::new: id 0 stands for None
ShaderNew(g, ok) ==
    IF ok
    THEN [gl |-> [g EXCEPT !.nextObj = @ + 1,
                           !.created = @ \cup {<<"shader", g.nextObj>>},
                           !.live = @ \cup {<<"shader", g.nextObj>>}],
          id |-> g.nextObj]
    ELSE [gl |-> g, id |-> 0]

ShaderDelete(g, id) ==
    IF <<"shader", id>> \notin g.live THEN g
    ELSE [g EXCEPT !.live = @ \ {<<"shader", id>>},
                   !.deletes = Append(@, <<"shader", id>>)]

\* Shader::from_source.  outcome: what the driver does with this source:
\* "alloc_fail" (glCreateShader returns 0), "compile_fail", "ok".
\* log: the driver's info log.
ShaderFromSource(g, outcome, log) ==
    LET n == ShaderNew(g, outcome # "alloc_fail")
    IN  IF n.id = 0
        THEN [gl |-> g, ok |-> FALSE, id |-> 0, err |-> "Could not allocate shader"]
        ELSE IF outcome = "ok"
        THEN [gl |-> n.gl, ok |-> TRUE, id |-> n.id, err |-> ""]
        ELSE [gl |-> ShaderDelete(n.gl, n.id), ok |-> FALSE, id |-> 0, err |-> log]

\* ShaderProgram::new: id 0 stands for None
ShaderProgramNew(g, ok) ==
    IF ok
    THEN [gl |-> [g EXCEPT !.nextObj = @ + 1,
                           !.created = @ \cup {<<"program", g.nextObj>>},
                           !.live = @ \cup {<<"program", g.nextObj>>},
                           !.attached = (g.nextObj :> {}) @@ @],
          id |-> g.nextObj]
    ELSE [gl |-> g, id |-> 0]

attach_shader(g, p, shader) == [g EXCEPT !.attached[p] = @ \cup {shader}]

link_program(g, p, ok) == IF ok THEN [g EXCEPT !.linked = @ \cup {p}] ELSE g

link_successful(g, p) == p \in g.linked

use_program(g, p) == [g EXCEPT !.program = p]

\* glDeleteProgram: the program goes and its shaders are detached; the
\* detached shader objects themselves stay until glDeleteShader
ShaderProgramDelete(g, p) ==
    IF <<"program", p>> \notin g.live THEN g
    ELSE [g EXCEPT !.live = @ \ {<<"program", p>>},
                   !.deletes = Append(@, <<"program", p>>),
                   !.attached[p] = {},
                   !.linked = @ \ {p}]

\* The driver's answers during one from_vertex_fragment call
BuildOutcomes ==
    [prog : BOOLEAN,
     vert : {"alloc_fail", "compile_fail", "ok"},
     frag : {"alloc_fail", "compile_fail", "ok"},
     link : BOOLEAN]

\* ShaderProgram::from_vertex_fragment.  The result is ok with the program's
\* id, or an error message <<stage prefix, text>>.
from_vertex_fragment(g, o) ==
    LET p == ShaderProgramNew(g, o.prog)
        v == ShaderFromSource(p.gl, o.vert, "vertex info log")
        f == ShaderFromSource(v.gl, o.frag, "fragment info log")
        a == link_program(attach_shader(attach_shader(f.gl, p.id, v.id), p.id, f.id),
                          p.id, o.link)
    IN  IF p.id = 0
        THEN [gl |-> g, ok |-> FALSE, id |-> 0,
              err |-> <<"", "Could not allocate a program">>]
        ELSE IF ~v.ok
        THEN [gl |-> v.gl, ok |-> FALSE, id |-> 0,
              err |-> <<"Vertex Compile Error: ", v.err>>]
        ELSE IF ~f.ok
        THEN [gl |-> f.gl, ok |-> FALSE, id |-> 0,
              err |-> <<"Fragment Compile Error: ", f.err>>]
        ELSE IF link_successful(a, p.id)
        THEN [gl |-> a, ok |-> TRUE, id |-> p.id, err |-> <<"", "">>]
        ELSE [gl |-> ShaderProgramDelete(a, p.id), ok |-> FALSE, id |-> 0,
              err |-> <<"Program Link Error: ", "program info log">>]

\* What an index fetch past the end of the element buffer may return:
\* the read is undefined, an index inside or outside the vertex range
OverrunValues == {0, Len(BaseVertices)}

\* glDrawElements(mode, v_count, UNSIGNED_INT, 0): fetches v_count indices
\* from the element buffer of the bound vertex array and draws with the
\* program in use; the framebuffer keeps the draws since the last clear
draw(g, mode, v_count, stray) ==
    LET data == g.bufData[g.vaoEbo[g.vaoBinding]]
    IN  [g EXCEPT !.framebuffer =
            Append(@, [mode |-> mode, count |-> v_count,
                       vao |-> g.vaoBinding, program |-> g.program,
                       indices |-> [i \in 1..v_count |->
                                      IF i <= Len(data) THEN data[i] ELSE stray]])]

draw_triangles(g, vertices_count, stray) == draw(g, "TRIANGLES", vertices_count, stray)

draw_lines(g, vertices_count, stray) == draw(g, "LINES", vertices_count, stray)

clear_mask(g) == [g EXCEPT !.framebuffer = <<>>]

\* window.swap_buffers(): the drawn frame goes to the screen; what the back
\* buffer holds afterwards is undefined, and the loop clears it before it
\* draws again, so the model keeps no draws in it
swap_buffers(g) == [g EXCEPT !.framebuffer = <<>>]

---------------------------------------------------------------------------
(* Window events and the key state: glfw *)

KeyEvent(k, a, m) == [type |-> "Key", key |-> k, action |-> a, mods |-> m]

SizeEvent(w, h) == [type |-> "FramebufferSize", width |-> w, height |-> h]

\* modifier sets an Escape press may carry
EscapeMods == {{}, {"Alt"}, {"Alt", "Shift"}}

\* the events glfw can deliver next when the keys ks are down: a key that is
\* up can be pressed, a key that is down can repeat or be released
NextEvents(ks) ==
    {KeyEvent(k, "Press", {}) : k \in MovementKeys \ ks}
    \cup {KeyEvent(k, a, {}) : k \in MovementKeys \cap ks, a \in {"Release", "Repeat"}}
    \cup (IF "Escape" \in ks
          THEN {KeyEvent("Escape", "Release", {})}
          ELSE {KeyEvent("Escape", "Press", m) : m \in EscapeMods})
    \cup {SizeEvent(640, 480)}

KeysAfter(ks, e) ==
    IF e.type # "Key" THEN ks
    ELSE IF e.action = "Press" THEN ks \cup {e.key}
    ELSE IF e.action = "Release" THEN ks \ {e.key}
    ELSE ks

\* what one poll_events call can deliver: at most n events, with the key
\* state they leave behind
RECURSIVE Batches(_, _)
Batches(ks, n) ==
    {[evs |-> <<>>, keys |-> ks]}
    \cup (IF n = 0 THEN {}
          ELSE UNION {{[evs |-> <<e>> \o b.evs, keys |-> b.keys] :
                          b \in Batches(KeysAfter(ks, e), n - 1)} :
                      e \in NextEvents(ks)})

---------------------------------------------------------------------------
(* process_events: main.rs *)

\* a faulty close arm: the modifiers are not matched
is_close_request_any_mods(e) ==
    e.type = "Key" /\ e.key = "Escape" /\ e.action = "Press"

\* WindowEvent::Key(Key::Escape, _, Action::Press, glfw::Modifiers::Alt)
is_close_request(e) ==
    e.type = "Key" /\ e.key = "Escape" /\ e.action = "Press" /\ e.mods = {"Alt"}

\* match_all_movement_keys!(Action::Release)
is_movement_release(e) ==
    e.type = "Key" /\ e.key \in MovementKeys /\ e.action = "Release"

VertHeld(ks) == ks \cap {"W", "S"} # {}

HorizHeld(ks) == ks \cap {"A", "D"} # {}

\* the held-key transitions one move_img call applies, added to a count c
Counted(c, ks) ==
    [c EXCEPT !.v = @ + (IF VertHeld(ks) THEN 1 ELSE 0),
              !.h = @ + (IF HorizHeld(ks) THEN 1 ELSE 0)]

\* a faulty loop body: move_img runs in the default arm of the match only
HandledSettings_move_in_default_arm(s, e, ks) ==
    IF is_movement_release(e) THEN reset_params(s)
    ELSE IF e.type = "FramebufferSize" \/ is_close_request(e) THEN s
    ELSE move_img(s, ks)

\* what the body of the for loop does to the settings: move_img, then
\* reset_params in the movement-key Release arm of the match
HandledSettings(s, e, ks) ==
    LET moved == move_img(s, ks)
    IN  IF is_movement_release(e) THEN reset_params(moved) ELSE moved

\* what it does to the counts of held-key transitions since the last reset
HandledUpdates(u, e, ks) ==
    IF is_movement_release(e)
    THEN [v |-> 0, h |-> 0, resets |-> u.resets + 1]
    ELSE Counted(u, ks)

\* the body of the for loop, for the event e at the head of the queue, when
\* the window reports the keys ks as pressed
ProcessOneEvent(e, ks) ==
        /\ settings' = HandledSettings(settings, e, ks)
        /\ gl' = IF e.type = "FramebufferSize"
                 THEN [gl EXCEPT !.viewport = <<e.width, e.height>>]
                 ELSE gl
        /\ should_close' = (should_close \/ is_close_request(e))
        /\ updates' = HandledUpdates(updates, e, ks)

---------------------------------------------------------------------------
(* main: main.rs *)

NoHandles ==
    [vbo |-> 0, vao1 |-> 0, ebo1 |-> 0, vao2 |-> 0, ebo2 |-> 0,
     shader_triangle |-> 0, shader_line |-> 0]

NotBuilt == [ok |-> FALSE, id |-> 0, err |-> <<"", "">>]

InitAt(start) ==
    /\ pc = start
    /\ settings = SettingsNew
    /\ prev_set = SettingsNew
    /\ keys = {}
    /\ events = <<>>
    /\ should_close = FALSE
    /\ gl = GlInit
    /\ handles = NoHandles
    /\ built = NotBuilt
    /\ frame = 0
    /\ delivered = 0
    /\ moves = [v |-> 0, h |-> 0, n |-> 0]
    /\ updates = [v |-> 0, h |-> 0, resets |-> 0]

Init == InitAt("setup_vbo")

\* let vertices = get_vertices(&settings.landslide) at main.rs:110; the
\* frame loop's v_count is taken from this array
vertices == get_vertices(SettingsNew.landslide)

\* let v_count = vertices.len() as i32 * 3
v_count == Len(vertices) * 3

\* expect(...) on None and panic!(...) on Err end the process
Panic(msg) ==
    /\ pc' = "panicked"
    /\ built' = [ok |-> FALSE, id |-> 0, err |-> msg]

\* main.rs:114-120
SetupVbo ==
    /\ pc = "setup_vbo"
    /\ \E ok \in BOOLEAN :
         LET n == ArrayBufferNew(gl, ok)
         IN  IF n.id = 0
             THEN /\ Panic(<<"", "Could not make the VBO">>)
                  /\ UNCHANGED <<gl, handles>>
             ELSE /\ gl' = buffer_data(ArrayBufferBind(n.gl, n.id, "Array"),
                                       "Array", vertices)
                  /\ handles' = [handles EXCEPT !.vbo = n.id]
                  /\ pc' = "setup_vao1"
                  /\ UNCHANGED built
    /\ UNCHANGED <<settings, prev_set, keys, events, should_close, frame, delivered, moves, updates>>

\* one vertex array with its element buffer: VertexArray::new, bind,
\* ArrayBuffer::new, bind(ElementArray), buffer_data, VertexAttribPointer
SetupVao(g, vaoOk, eboOk, indices) ==
    LET a == VertexArrayNew(g, vaoOk)
        b == ArrayBufferNew(VertexArrayBind(a.gl, a.id), eboOk)
    IN  IF a.id = 0
        THEN [gl |-> g, vao |-> 0, ebo |-> 0, err |-> "Could not make the VAO"]
        ELSE IF b.id = 0
        THEN [gl |-> b.gl, vao |-> a.id, ebo |-> 0, err |-> "Could not make the EBO"]
        ELSE [gl |-> VertexAttribPointer(
                        buffer_data(ArrayBufferBind(b.gl, b.id, "ElementArray"),
                                    "ElementArray", cast_slice(indices))),
              vao |-> a.id, ebo |-> b.id, err |-> ""]

\* main.rs:122-143
SetupVao1 ==
    /\ pc = "setup_vao1"
    /\ \E vaoOk \in BOOLEAN, eboOk \in BOOLEAN :
         LET r == SetupVao(gl, vaoOk, eboOk, get_triangles_indices)
         IN  /\ gl' = r.gl
             /\ handles' = [handles EXCEPT !.vao1 = r.vao, !.ebo1 = r.ebo]
             /\ IF r.err # ""
                THEN Panic(<<"", r.err>>)
                ELSE pc' = "setup_vao2" /\ UNCHANGED built
    /\ UNCHANGED <<settings, prev_set, keys, events, should_close, frame, delivered, moves, updates>>

\* main.rs:145-170
SetupVao2 ==
    /\ pc = "setup_vao2"
    /\ \E vaoOk \in BOOLEAN, eboOk \in BOOLEAN :
         LET r == SetupVao(gl, vaoOk, eboOk, get_lines_indices)
         IN  /\ handles' = [handles EXCEPT !.vao2 = r.vao, !.ebo2 = r.ebo]
             /\ IF r.err # ""
                THEN gl' = r.gl /\ Panic(<<"", r.err>>)
                ELSE /\ gl' = clear_array_binding(r.gl)
                     /\ pc' = "build_triangle"
                     /\ UNCHANGED built
    /\ UNCHANGED <<settings, prev_set, keys, events, should_close, frame, delivered, moves, updates>>

\* main.rs:197-200
BuildTriangle ==
    /\ pc = "build_triangle"
    /\ \E o \in BuildOutcomes :
         LET r == from_vertex_fragment(gl, o)
         IN  /\ gl' = r.gl
             /\ built' = r
             /\ handles' = [handles EXCEPT !.shader_triangle = r.id]
             /\ pc' = IF r.ok THEN "build_line" ELSE "panicked"
    /\ UNCHANGED <<settings, prev_set, keys, events, should_close, frame, delivered, moves, updates>>

\* main.rs:202-207
BuildLine ==
    /\ pc = "build_line"
    /\ \E o \in BuildOutcomes :
         LET r == from_vertex_fragment(gl, o)
         IN  /\ gl' = r.gl
             /\ built' = r
             /\ handles' = [handles EXCEPT !.shader_line = r.id]
             /\ pc' = IF r.ok THEN "loop_check" ELSE "panicked"
    /\ UNCHANGED <<settings, prev_set, keys, events, should_close, frame, delivered, moves, updates>>

\* while !setup.window.should_close()
loop_condition == ~should_close

\* main.rs:209-210: the loop test, and on entry prev_set = settings.clone()
LoopCheck ==
    /\ pc = "loop_check"
    /\ IF loop_condition
       THEN /\ frame < MaxFrames
            /\ pc' = "process_events"
            /\ prev_set' = settings
            /\ frame' = frame + 1
            /\ moves' = [v |-> 0, h |-> 0, n |-> 0]
       ELSE /\ pc' = "release"
            /\ UNCHANGED <<prev_set, frame, moves>>
    /\ UNCHANGED <<settings, keys, events, should_close, gl, handles, built, delivered, updates>>

\* main.rs:84-101: one pass of the for loop over the flushed messages
ProcessEvent ==
    /\ pc = "process_events"
    /\ events # <<>>
    /\ ProcessOneEvent(Head(events), keys)
    /\ moves' = [v |-> moves.v + (IF settings'.landslide[2] # settings.landslide[2]
                                  THEN 1 ELSE 0),
                 h |-> moves.h + (IF settings'.landslide[1] # settings.landslide[1]
                                  THEN 1 ELSE 0),
                 n |-> moves.n + 1]
    /\ events' = Tail(events)
    /\ UNCHANGED <<pc, prev_set, keys, handles, built, frame, delivered>>

\* a faulty comparison: only landslide[0] is compared
settings_has_changed_first_only(prev, cur) ==
    prev.landslide[1] # cur.landslide[1]

\* main.rs:213-218
settings_has_changed(prev, cur) ==
    \E i \in 1..Len(prev.landslide) : prev.landslide[i] # cur.landslide[i]

\* main.rs:213-228, once the message queue is drained: compare, upload, clear
CompareUpload ==
    /\ pc = "process_events"
    /\ events = <<>>
    /\ gl' = clear_mask(IF settings_has_changed(prev_set, settings)
                        THEN update_buffer_data(gl, "Array",
                                                get_vertices(settings.landslide))
                        ELSE gl)
    /\ pc' = "draw_triangles"
    /\ UNCHANGED <<settings, prev_set, keys, events, should_close, handles, built,
                   frame, delivered, moves, updates>>

\* main.rs:230-234
DrawTriangles ==
    /\ pc = "draw_triangles"
    /\ \E stray \in OverrunValues :
         gl' = draw_triangles(use_program(VertexArrayBind(gl, handles.vao1),
                                          handles.shader_triangle),
                              v_count, stray)
    /\ pc' = "draw_lines"
    /\ UNCHANGED <<settings, prev_set, keys, events, should_close, handles, built,
                   frame, delivered, moves, updates>>

\* main.rs:236-240
DrawLines ==
    /\ pc = "draw_lines"
    /\ \E stray \in OverrunValues :
         gl' = clear_array_binding(
                  draw_lines(use_program(VertexArrayBind(gl, handles.vao2),
                                         handles.shader_line),
                             v_count, stray))
    /\ pc' = "poll"
    /\ UNCHANGED <<settings, prev_set, keys, events, should_close, handles, built,
                   frame, delivered, moves, updates>>

\* main.rs:242-243: poll_events runs the callbacks, which queue the new
\* events, refresh the cached key state and, on an OS close request, set the
\* close flag; swap_buffers presents the frame
PollSwap ==
    /\ pc = "poll"
    /\ \E b \in Batches(keys, MaxEvents - delivered), osClose \in BOOLEAN :
         /\ events' = events \o b.evs
         /\ keys' = b.keys
         /\ delivered' = delivered + Len(b.evs)
         /\ should_close' = (should_close \/ osClose)
    /\ gl' = swap_buffers(gl)
    /\ pc' = "loop_check"
    /\ UNCHANGED <<settings, prev_set, handles, built, frame, moves, updates>>

\* main.rs:246-250
Release ==
    /\ pc = "release"
    /\ gl' = VertexArrayDelete(
               VertexArrayDelete(
                 ArrayBufferDelete(
                   ArrayBufferDelete(
                     ArrayBufferDelete(gl, handles.vbo),
                     handles.ebo1),
                   handles.ebo2),
                 handles.vao1),
               handles.vao2)
    /\ pc' = "done"
    /\ UNCHANGED <<settings, prev_set, keys, events, should_close, handles, built,
                   frame, delivered, moves, updates>>

Next ==
    \/ SetupVbo
    \/ SetupVao1
    \/ SetupVao2
    \/ BuildTriangle
    \/ BuildLine
    \/ LoopCheck
    \/ ProcessEvent
    \/ CompareUpload
    \/ DrawTriangles
    \/ DrawLines
    \/ PollSwap
    \/ Release

Spec == Init /\ [][Next]_vars

\* poll_events does not block: with nothing pending it returns at once
PollReturns ==
    /\ pc = "poll"
    /\ gl' = swap_buffers(gl)
    /\ pc' = "loop_check"
    /\ UNCHANGED <<settings, prev_set, keys, events, should_close, handles, built,
                   frame, delivered, moves, updates>>

\* The program is one thread that always takes its next step: no statement
\* of main blocks.  Every step leaves its pc state, so at "poll" it is
\* enough to ask that the call returns (PollReturns is PollSwap with no
\* event delivered); whatever PollSwap step is taken discharges it.
Progress ==
    \/ SetupVbo \/ SetupVao1 \/ SetupVao2 \/ BuildTriangle \/ BuildLine
    \/ LoopCheck \/ ProcessEvent \/ CompareUpload \/ DrawTriangles \/ DrawLines
    \/ PollReturns \/ Release

FairSpec == Spec /\ WF_vars(Progress)

---------------------------------------------------------------------------
(* A driver for the Settings transitions of the event handler alone: glfw  *)
(* delivers one event at a time (the key state already reflects it, as     *)
(* after poll_events) and the handler's effect on the settings is applied. *)
(* It reaches the Settings values the frame loop needs many frames for.    *)
(* A Press adds a key to the key state, a Release removes one, every other *)
(* event leaves the key state as it is.                                    *)

HandlerInit == InitAt("handler_driver")

HandleEvent ==
    /\ pc = "handler_driver"
    /\ \E e \in NextEvents(keys) :
         LET ks == KeysAfter(keys, e)
         IN  /\ e.type = "Key" => e.key \in MovementKeys
             /\ is_movement_release(e) => updates.resets < MaxResets
             /\ e.type = "Key" /\ e.action = "Press" =>
                    Cardinality(keys) + updates.resets < MaxPresses
             /\ updates.v + updates.h
                  + (IF VertHeld(ks) THEN 1 ELSE 0) + (IF HorizHeld(ks) THEN 1 ELSE 0)
                  <= MaxUpdates
             /\ keys' = ks
             /\ settings' = HandledSettings(settings, e, ks)
             /\ updates' = HandledUpdates(updates, e, ks)
    /\ UNCHANGED <<pc, prev_set, events, should_close, gl, handles, built, frame,
                   delivered, moves>>

HandlerNext == HandleEvent

HandlerSpec == HandlerInit /\ [][HandlerNext]_vars

---------------------------------------------------------------------------
(* Claims about the Settings transitions, checked under HandlerSpec *)

RECURSIVE Pow2(_)
Pow2(n) == IF n = 0 THEN 1 ELSE 2 * Pow2(n - 1)

\* a step of the driver that applied exactly one held-key transition
OneUpdateStep == settings'.iteration = settings.iteration + 1

\* a step that processed the Release of a movement key
ReleaseStep == \E k \in MovementKeys : k \in keys /\ keys' = keys \ {k}

\* the step size the next update of an axis would apply
VertStepSize(s) == move_vert(s, "W").landslide[2] - s.landslide[2]

HorizStepSize(s) == move_horiz(s, "D").landslide[1] - s.landslide[1]

\* C1: after n held-key updates on one single axis since the Settings were
\* fresh (new or reset), delta is 0.01 * 2^floor(n/10); and an update with a
\* single key held moves that key's axis by the delta the update leaves
\* behind (after its doubling, if any): W and D add it, S and A subtract it,
\* and the other axis stays.
C1_Acceleration ==
    /\ [](/\ updates.h = 0 => settings.delta = 10 * Pow2(updates.v \div 10)
          /\ updates.v = 0 => settings.delta = 10 * Pow2(updates.h \div 10))
    /\ [][OneUpdateStep =>
            /\ keys' = {"W"} =>
                 settings'.landslide =
                    <<settings.landslide[1], settings.landslide[2] + settings'.delta>>
            /\ keys' = {"S"} =>
                 settings'.landslide =
                    <<settings.landslide[1], settings.landslide[2] - settings'.delta>>
            /\ keys' = {"D"} =>
                 settings'.landslide =
                    <<settings.landslide[1] + settings'.delta, settings.landslide[2]>>
            /\ keys' = {"A"} =>
                 settings'.landslide =
                    <<settings.landslide[1] - settings'.delta, settings.landslide[2]>>]_vars

\* 20 updates on the vertical axis alone, upwards, from a fresh Settings:
\* delta is 0.04 and the translation 9 * 0.01 + 10 * 0.02 + 0.04
C1_Witness ==
    /\ updates = [v |-> 20, h |-> 0, resets |-> 0]
    /\ settings.delta = 40
    /\ settings.landslide = <<0, 330>>

\* C2: processing the Release of a movement key leaves delta 0.01 and the
\* iteration counter 0, with the translation as move_img left it before the
\* reset; a step that is not such a Release never lowers delta or the counter.
C2_ReleaseResets ==
    [][IF ReleaseStep
       THEN /\ settings'.delta = 10
            /\ settings'.iteration = 0
            /\ settings'.landslide = move_img(settings, keys').landslide
       ELSE /\ settings'.delta >= settings.delta
            /\ settings'.iteration >= settings.iteration]_vars

\* a Release was processed after delta had doubled
C2_Witness ==
    /\ updates = [v |-> 0, h |-> 0, resets |-> 1]
    /\ settings.delta = 10
    /\ settings.iteration = 0
    /\ settings.landslide[2] >= 110

\* C3 as claimed: a held-key update on the horizontal axis only leaves the
\* step size of the next vertical update as it was, and the other way round.
C3_AxesIndependent ==
    [][OneUpdateStep =>
         /\ (HorizHeld(keys') /\ ~VertHeld(keys')) =>
               VertStepSize(settings') = VertStepSize(settings)
         /\ (VertHeld(keys') /\ ~HorizHeld(keys')) =>
               HorizStepSize(settings') = HorizStepSize(settings)]_vars

\* C3 amended: the two axes share one delta and one counter.  An update on
\* one axis alone leaves the other axis's translation as it was, but it
\* counts towards the shared acceleration: after v vertical and h horizontal
\* updates since the Settings were fresh, the next update of either axis
\* steps by 0.01 * 2^floor((v + h + 1) / 10).
C3_AxesShareCounter ==
    /\ [](/\ VertStepSize(settings) = 10 * Pow2((updates.v + updates.h + 1) \div 10)
          /\ HorizStepSize(settings) = 10 * Pow2((updates.v + updates.h + 1) \div 10))
    /\ [][OneUpdateStep =>
            /\ (HorizHeld(keys') /\ ~VertHeld(keys')) =>
                  settings'.landslide[2] = settings.landslide[2]
            /\ (VertHeld(keys') /\ ~HorizHeld(keys')) =>
                  settings'.landslide[1] = settings.landslide[1]]_vars

\* ten updates on the horizontal axis alone: the next vertical step is 0.02
C3_Witness ==
    /\ updates = [v |-> 0, h |-> 10, resets |-> 0]
    /\ settings.landslide[2] = 0
    /\ VertStepSize(settings) = 20

---------------------------------------------------------------------------
(* Claims about the frame loop and the GL objects, checked under Spec *)

\* a step of the for loop in process_events
EventStep == pc = "process_events" /\ events # <<>> /\ events' = Tail(events)

\* C4 as claimed: when the event processing of a loop iteration is over,
\* each axis with a key held in that iteration has had its held-key
\* transition applied exactly once, whatever the number of queued events.
C4_OncePerFrame ==
    pc = "draw_triangles" =>
        /\ VertHeld(keys) => moves.v = 1
        /\ HorizHeld(keys) => moves.h = 1

\* C4 amended: the held-key transition is applied once per held axis for
\* every window event processed in the iteration, of whatever kind: with n
\* events queued an axis with a key held has moved n times when the event
\* processing is over (not at all when no event was queued), and an axis
\* with no key held has not moved.
C4_OncePerEvent ==
    pc = "draw_triangles" =>
        /\ moves.v = IF VertHeld(keys) THEN moves.n ELSE 0
        /\ moves.h = IF HorizHeld(keys) THEN moves.n ELSE 0

\* an iteration that processed three events with a vertical key held
C4_Witness ==
    /\ pc = "draw_triangles"
    /\ VertHeld(keys)
    /\ moves.n = 3
    /\ moves.v = 3

\* C5: while an iteration's events are processed, with W and S both pressed
\* an event moves the vertical translation up, with A and D both pressed it
\* moves the horizontal translation down, and no event moves an axis against
\* the direction it has already moved in this iteration (prev_set holds the
\* translation the iteration began with).
C5_OneDirectionPerAxis ==
    [][EventStep =>
         /\ {"W", "S"} \subseteq keys => settings'.landslide[2] > settings.landslide[2]
         /\ {"A", "D"} \subseteq keys => settings'.landslide[1] < settings.landslide[1]
         /\ \A i \in 1..2 :
               (settings'.landslide[i] - settings.landslide[i])
                 * (settings.landslide[i] - prev_set.landslide[i]) >= 0]_vars

\* W, S and A down while three events were processed: up and left each time
C5_Witness ==
    /\ pc = "process_events"
    /\ {"W", "S", "A"} \subseteq keys
    /\ moves = [v |-> 3, h |-> 3, n |-> 3]
    /\ settings.landslide[2] > prev_set.landslide[2]
    /\ settings.landslide[1] < prev_set.landslide[1]

\* C6 as claimed: a from_vertex_fragment call that fails leaves no GL object
\* behind that it created: the objects that exist are those from before.
C6_FailedBuildCleansUp ==
    [][(pc \in {"build_triangle", "build_line"} /\ pc' = "panicked")
          => gl'.live = gl.live]_vars

DeleteCount(h) == Cardinality({i \in 1..Len(gl.deletes) : gl.deletes[i] = h})

\* C7 as claimed: when main returns after the loop, every GL object created
\* has been deleted exactly once.
C7_AllReleased ==
    pc = "done" => \A h \in gl.created : h \notin gl.live /\ DeleteCount(h) = 1

\* C8: the loop test enters the body exactly when the close flag is unset
\* and goes to the release code when it is set; the flag, once set, stays
\* set; it is set only by poll_events (an OS close request) or by processing
\* a Press of Escape with the Alt modifier, which does set it; and once it
\* is set main runs on to its end.
C8_LoopExit ==
    /\ [][pc = "loop_check" =>
            pc' = IF should_close THEN "release" ELSE "process_events"]_vars
    /\ [][should_close => should_close']_vars
    /\ [][(~should_close /\ should_close') =>
            \/ pc = "poll"
            \/ /\ EventStep
               /\ Head(events) = KeyEvent("Escape", "Press", {"Alt"})]_vars
    /\ [][(EventStep /\ Head(events) = KeyEvent("Escape", "Press", {"Alt"}))
            => should_close']_vars
    /\ (should_close ~> pc = "done")

\* the flag was set by Escape+Alt while events were processed, and the
\* iteration in progress has gone on to its draw calls
C8_Witness ==
    /\ should_close
    /\ pc = "draw_lines"

\* C9: at both draw calls the vertex buffer (the first buffer created, bound
\* to the Array target, read by attribute 0 of both vertex arrays) holds
\* get_vertices of the current translation; the compare-and-upload step
\* writes the 17 regenerated vertices into that buffer and into no other
\* when a translation component changed, and writes nothing otherwise.
C9_VertexBufferCurrent ==
    /\ [](pc \in {"draw_triangles", "draw_lines"} =>
            /\ handles.vbo = 1
            /\ gl.arrayBinding = handles.vbo
            /\ gl.vaoAttrib[handles.vao1] = handles.vbo
            /\ gl.vaoAttrib[handles.vao2] = handles.vbo
            /\ gl.bufData[handles.vbo] =
                 [i \in 1..17 |-> <<BaseVertices[i][1] + settings.landslide[1],
                                    BaseVertices[i][2] + settings.landslide[2],
                                    0>>])
    /\ [][(pc = "process_events" /\ pc' = "draw_triangles") =>
            IF settings.landslide # prev_set.landslide
            THEN /\ gl'.bufData[handles.vbo] = get_vertices(settings.landslide)
                 /\ \A b \in DOMAIN gl.bufData \ {handles.vbo} :
                       gl'.bufData[b] = gl.bufData[b]
            ELSE gl'.bufData = gl.bufData]_vars

\* a draw call after an iteration that moved the figure on both axes
C9_Witness ==
    /\ pc = "draw_lines"
    /\ settings.landslide[1] # prev_set.landslide[1]
    /\ settings.landslide[2] # prev_set.landslide[2]
    /\ gl.bufData[handles.vbo] = get_vertices(settings.landslide)

\* C10 as claimed: every draw call requests no more indices than the element
\* buffer of its vertex array holds (27 for the triangles, 38 for the
\* lines), and every index it fetches is below the vertex count 17.
C10_DrawWithinElementBuffer ==
    \A n \in 1..Len(gl.framebuffer) :
        LET d == gl.framebuffer[n]
        IN  /\ d.count <= Len(gl.bufData[gl.vaoEbo[d.vao]])
            /\ d.mode = "TRIANGLES" => d.count <= 27
            /\ d.mode = "LINES" => d.count <= 38
            /\ \A i \in 1..d.count : d.indices[i] < 17

=============================================================================
